---- MODULE Spec2Model ----
(***************************************************************************)
(* RecentLines (bluesky_widgets/models/plot_builders.py): the multi-run    *)
(* line-plot controller with its run registry, pin set, eviction, deferred *)
(* activation on stream arrival and recolouring on run completion.         *)
(*                                                                         *)
(* A Run is identified by its uid (a number in Runs).  The run's own state *)
(* (its streams, whether its stop document has arrived) belongs to the     *)
(* data-acquisition side and changes whether or not the controller tracks  *)
(* the run.  Every handler is an operator from a controller state record   *)
(* to the state record it leaves; an exception raised inside a handler     *)
(* ends the operation where it is raised and is recorded in field err.     *)
(***************************************************************************)
EXTENDS Integers, Sequences, FiniteSets, TLC

\* ---------------------------------------------------------------- bounds
NRuns == 2          \* run handles the caller has at hand
MaxDim == 6         \* each axis of an array given to Image has 1..MaxDim entries
MaxNdim == 3        \* an array given to Image has 1..MaxNdim axes
MaxRows == 2        \* a raster has 1..MaxRows rows
MaxCols == 3        \* a raster has 1..MaxCols columns
MaxMaxRuns == 1     \* max_runs takes the values 0..MaxMaxRuns
MaxYs == 2          \* len(ys) takes the values 0..MaxYs
MaxSteps == 4       \* operations and notifications in one history
MaxPairSteps == 3   \* operations on two controllers in one history
MaxPolls == 10      \* status-polling workers started in one history

\* ------------------------------------------------------- program constants
PaletteSize == 10   \* itertools.cycle(f"C{i}" for i in range(10))

Runs == 1..NRuns
Streams == {"primary", "baseline"}
needs_streams == {"primary"}
Uuids == 1..(MaxSteps * MaxYs)
\* f"C{i}" for i in range(10); color_cycle holds the i of the next draw.
ColorName(i) == <<"C0", "C1", "C2", "C3", "C4", "C5", "C6", "C7", "C8", "C9">>[i + 1]
Palette == {ColorName(i) : i \in 0..(PaletteSize - 1)}
Black == "black"

VARIABLES
    runs,            \* self.runs: RunList, a sequence of run uids
    pinned,          \* self._pinned: set of uids
    max_runs,        \* self._max_runs
    ys,              \* self._ys: tuple of y expressions (their indices)
    runs_to_lines,   \* self._runs_to_lines: uid -> set of LineSpec uuids
    lines,           \* self.axes.lines: set of LineSpec records
    color_cycle,     \* position of self._color_cycle in the palette
    new_stream_cb,   \* runs whose events.new_stream has _on_new_stream connected
    completed_cb,    \* runs whose events.completed has _on_run_complete connected
    streams,         \* streams[r]: the streams of needs_streams run r has; the
                     \* other streams of a run are read by no code and not kept
    completed,       \* completed[r]: run r's stop document has arrived
    err,             \* exception raised by the last operation, or "none"
    steps,           \* operations and notifications so far
    last,            \* the last operation: its name, its run, what it evicted,
                     \* and (pre) how its run stood when the operation began
    hist             \* adds: the runs added so far, while the history is only
                     \* add_run calls (pinned=False) of distinct runs;
                     \* padds: the runs added so far with their pinned flag,
                     \* while the history is only add_run calls of distinct
                     \* runs that have their required streams

\* The other objects of plot_builders.py.  Each has a specification of its
\* own; a step of one specification leaves the objects of the others alone.
VARIABLES
    ctor,            \* a call of RecentLines.__init__: its arguments, what it left
    im,              \* an Image or a RasteredImage with its axes and its caller
    arr,             \* a call of Image._transform: the array and the result
    ras,             \* the data of a raster run and what _transform made of it
    pair,            \* two RecentLines in one process, with the objects they hold
    qt               \* a QtReManagerConnection with its worker thread

vars == <<runs, pinned, max_runs, ys, runs_to_lines, lines, color_cycle,
          new_stream_cb, completed_cb, streams, completed, err, steps, last, hist,
          ctor, im, arr, ras, pair, qt>>

recent_lines == <<runs, pinned, max_runs, ys, runs_to_lines, lines, color_cycle,
                  new_stream_cb, completed_cb, streams, completed, err, steps,
                  last, hist>>

\* An object that the specification at hand does not construct.
Absent == [class |-> "none"]

\* ------------------------------------------------------------- helpers
RunSet(seq) == {seq[k] : k \in 1..Len(seq)}

RemoveAt(seq, i) == [k \in 1..(Len(seq) - 1) |-> IF k < i THEN seq[k] ELSE seq[k + 1]]

IndexOf(seq, x) == CHOOSE k \in 1..Len(seq) : seq[k] = x

Min(S) == CHOOSE x \in S : \A y \in S : x <= y

\* The controller state a handler works on, as a record.
State ==
    [runs |-> runs, pinned |-> pinned, max_runs |-> max_runs,
     runs_to_lines |-> runs_to_lines, lines |-> lines,
     color_cycle |-> color_cycle, new_stream_cb |-> new_stream_cb,
     completed_cb |-> completed_cb, streams |-> streams,
     completed |-> completed, err |-> "none", evicted |-> {}]

\* The one element of a singleton set.  {F(t) : t \in {e}} evaluates e once and
\* hands its value to F, as a statement sequence hands on the state it leaves.
Only(S) == CHOOSE x \in S : TRUE

Raise(s, e) == [s EXCEPT !.err = e]

Ok(s) == s.err = "none"

\* uuid.uuid4() of a new LineSpec: an id that nothing refers to.
UsedUuids(s) ==
    {l.uuid : l \in s.lines} \cup UNION {s.runs_to_lines[u] : u \in DOMAIN s.runs_to_lines}

NewUuid(s) == Min(Uuids \ UsedUuids(s))

\* Every run here is a live run (it has events); it is "live and not
\* completed" until its stop document arrives.
run_is_live_and_not_completed(s, run) == ~s.completed[run]

\* ------------------------------------------------- RecentLines handlers

\* Variant of _on_run_removed without the try/except around axes.by_uuid: an
\* indexed uuid whose line is no longer in the axes raises KeyError.
_on_run_removed_strict(s, run) ==
    Only({IF run \notin DOMAIN s1.runs_to_lines
          THEN Raise(s1, "KeyError")
          ELSE IF \E u \in s1.runs_to_lines[run] : \A l \in s1.lines : l.uuid # u
          THEN Raise([s1 EXCEPT
                        !.runs_to_lines = [u \in (DOMAIN s1.runs_to_lines) \ {run}
                                              |-> s1.runs_to_lines[u]]], "KeyError")
          ELSE [s1 EXCEPT
                  !.runs_to_lines = [u \in (DOMAIN s1.runs_to_lines) \ {run}
                                        |-> s1.runs_to_lines[u]],
                  !.lines = {l \in s1.lines : l.uuid \notin s1.runs_to_lines[run]}]
          : s1 \in {[s EXCEPT !.pinned = @ \ {run}]}})

\* Variant of _on_run_removed without self._pinned.discard(run_uid).
_on_run_removed_keeping_pin(s, run) ==
    IF run \notin DOMAIN s.runs_to_lines
    THEN Raise(s, "KeyError")
    ELSE [s EXCEPT
            !.runs_to_lines = [u \in (DOMAIN s.runs_to_lines) \ {run}
                                  |-> s.runs_to_lines[u]],
            !.lines = {l \in s.lines : l.uuid \notin s.runs_to_lines[run]}]

\* _on_run_removed: plot_builders.py 280-291
_on_run_removed(s, run) ==
    Only({IF run \notin DOMAIN s1.runs_to_lines
          THEN Raise(s1, "KeyError")        \* defaultdict.pop(key) of a missing key
          ELSE LET line_uuids == s1.runs_to_lines[run]
               IN  [s1 EXCEPT
                      !.runs_to_lines = [u \in (DOMAIN s1.runs_to_lines) \ {run}
                                            |-> s1.runs_to_lines[u]],
                      !.lines = {l \in s1.lines : l.uuid \notin line_uuids}]
          : s1 \in {[s EXCEPT !.pinned = @ \ {run}]}})

\* RunList.pop(i): the item leaves the list, then events.removed is emitted.
\* The emitter calls the handler synchronously; an exception the handler
\* raises reaches the caller of the list operation.
RunList_pop(s, i) ==
    Only({_on_run_removed([t EXCEPT !.runs = RemoveAt(@, i),
                                    !.evicted = @ \cup {t.runs[i]}], t.runs[i])
          : t \in {s}})

\* Variant of SkipPinned that does not look at the pin set: the scan stays
\* where it is, so the entry at the front is the one popped.
SkipPinned_ignoring_pins(s, i) == i

\* The inner loop of _cull_runs: the first index from i on whose run is not
\* pinned; Len+1 when there is none (self.runs[i] raises IndexError there).
RECURSIVE SkipPinned(_, _)
SkipPinned(s, i) ==
    IF i > Len(s.runs) THEN i
    ELSE IF s.runs[i] \in s.pinned THEN SkipPinned(s, i + 1)
    ELSE i

\* Variant of the loop of _cull_runs whose test is len(self.runs) >
\* self.max_runs: the pinned runs count against the capacity.
RECURSIVE CullLoop_counting_pins(_, _)
CullLoop_counting_pins(s, i) ==
    IF Len(s.runs) > s.max_runs
    THEN LET j == SkipPinned(s, i)
         IN  IF j > Len(s.runs)
             THEN Raise(s, "IndexError")
             ELSE Only({IF Ok(s1) THEN CullLoop_counting_pins(s1, j) ELSE s1
                        : s1 \in {RunList_pop(s, j)}})
    ELSE s

\* _cull_runs: plot_builders.py 262-268
RECURSIVE CullLoop(_, _)
CullLoop(s, i) ==
    IF Len(s.runs) > s.max_runs + Cardinality(s.pinned)
    THEN LET j == SkipPinned(s, i)
         IN  IF j > Len(s.runs)
             THEN Raise(s, "IndexError")
             ELSE Only({IF Ok(s1) THEN CullLoop(s1, j) ELSE s1
                        : s1 \in {RunList_pop(s, j)}})
    ELSE s

_cull_runs(s) == CullLoop(s, 1)

\* Variant of the loop body of _add_lines that reads the colour at the
\* palette position without moving the position.
AddLine_no_advance(s, run, y) ==
    LET live == run_is_live_and_not_completed(s, run)
        isPinned == run \in s.pinned
        line == [uuid |-> NewUuid(s), run |-> run, y |-> y,
                 color |-> IF live THEN Black ELSE ColorName(s.color_cycle),
                 linestyle |-> IF isPinned THEN "dashed" ELSE "solid",
                 label |-> IF isPinned THEN "pinned" ELSE "plain"]
        old == IF run \in DOMAIN s.runs_to_lines THEN s.runs_to_lines[run] ELSE {}
    IN  [s EXCEPT
           !.completed_cb = IF live THEN @ \cup {run} ELSE @,
           !.runs_to_lines = [u \in (DOMAIN s.runs_to_lines) \cup {run} |->
                                 IF u = run THEN old \cup {line.uuid}
                                 ELSE s.runs_to_lines[u]],
           !.lines = @ \cup {line}]

\* One pass of the loop body of _add_lines for y expression y.
AddLine(s, run, y) ==
    LET live == run_is_live_and_not_completed(s, run)
        isPinned == run \in s.pinned
        line == [uuid |-> NewUuid(s), run |-> run, y |-> y,
                 color |-> IF live THEN Black ELSE ColorName(s.color_cycle),
                 linestyle |-> IF isPinned THEN "dashed" ELSE "solid",
                 label |-> IF isPinned THEN "pinned" ELSE "plain"]
        old == IF run \in DOMAIN s.runs_to_lines THEN s.runs_to_lines[run] ELSE {}
    IN  [s EXCEPT
           !.completed_cb = IF live THEN @ \cup {run} ELSE @,
           !.color_cycle = IF live THEN @ ELSE (@ + 1) % PaletteSize,
           !.runs_to_lines = [u \in (DOMAIN s.runs_to_lines) \cup {run} |->
                                 IF u = run THEN old \cup {line.uuid}
                                 ELSE s.runs_to_lines[u]],
           !.lines = @ \cup {line}]

RECURSIVE AddLinesLoop(_, _, _)
AddLinesLoop(s, run, k) ==
    IF k > Len(ys) THEN s
    ELSE Only({AddLinesLoop(s1, run, k + 1) : s1 \in {AddLine(s, run, ys[k])}})

\* _add_lines: plot_builders.py 234-260
_add_lines(s, run) ==
    Only({IF Ok(s1) THEN AddLinesLoop(s1, run, 1) ELSE s1 : s1 \in {_cull_runs(s)}})

\* _on_run_added: plot_builders.py 270-278
_on_run_added(s, run) ==
    IF needs_streams \subseteq s.streams[run]
    THEN _add_lines(s, run)
    ELSE [s EXCEPT !.new_stream_cb = @ \cup {run}]

\* _on_new_stream: plot_builders.py 293-297
_on_new_stream(s, run) ==
    IF needs_streams \subseteq s.streams[run]
    THEN Only({IF Ok(s1) THEN [s1 EXCEPT !.new_stream_cb = @ \ {run}] ELSE s1
               : s1 \in {_add_lines(s, run)}})
    ELSE s

\* Variant of the loop of _on_run_complete that draws once and gives every
\* line of the run the colour drawn, moving the palette as far as the code.
RECURSIVE RecolorLoop_one_color(_, _, _)
RecolorLoop_one_color(s, order, k) ==
    LET found == {l \in s.lines : \E j \in 1..Len(order) : l.uuid = order[j]}
    IN  [s EXCEPT !.lines = {IF l \in found
                             THEN [l EXCEPT !.color = ColorName(s.color_cycle)]
                             ELSE l : l \in s.lines},
                  !.color_cycle = (@ + Cardinality(found)) % PaletteSize]

\* The loop of _on_run_complete over the uuids in the order `order`.
RECURSIVE RecolorLoop(_, _, _)
RecolorLoop(s, order, k) ==
    IF k > Len(order) THEN s
    ELSE IF \E l \in s.lines : l.uuid = order[k]
    THEN Only({RecolorLoop(s1, order, k + 1) : s1 \in
            {[s EXCEPT !.lines = {IF l.uuid = order[k]
                                  THEN [l EXCEPT !.color = ColorName(s.color_cycle)]
                                  ELSE l : l \in s.lines},
                       !.color_cycle = (@ + 1) % PaletteSize]}})
    ELSE RecolorLoop(s, order, k + 1)

\* The index a defaultdict leaves after self._runs_to_lines[run_uid].
Lookup(s, run) ==
    IF run \in DOMAIN s.runs_to_lines THEN s
    ELSE [s EXCEPT !.runs_to_lines =
             [u \in (DOMAIN s.runs_to_lines) \cup {run} |->
                 IF u = run THEN {} ELSE s.runs_to_lines[u]]]

\* Variant of _on_run_complete that leaves the loop after the first uuid.
_on_run_complete_first_only(s, run, order) ==
    Only({RecolorLoop(s1, SubSeq(order, 1, 1), 1) : s1 \in {Lookup(s, run)}})

\* Variant of _on_run_complete that draws one palette colour for the event and
\* gives it to every line, instead of one draw per line.
_on_run_complete_one_draw(s, run, order) ==
    Only({IF \E l \in s1.lines : l.uuid \in s1.runs_to_lines[run]
          THEN [s1 EXCEPT !.lines = {IF l.uuid \in s1.runs_to_lines[run]
                                     THEN [l EXCEPT !.color = ColorName(s1.color_cycle)]
                                     ELSE l : l \in s1.lines},
                          !.color_cycle = (@ + 1) % PaletteSize]
          ELSE s1
          : s1 \in {Lookup(s, run)}})

\* _on_run_complete: plot_builders.py 299-313; order is the iteration order
\* of the set of uuids.
_on_run_complete(s, run, order) ==
    Only({RecolorLoop(s1, order, 1) : s1 \in {Lookup(s, run)}})

\* The orders in which a set of uuids can be iterated.
RECURSIVE Orders(_)
Orders(S) ==
    IF S = {} THEN {<<>>}
    ELSE UNION {{<<x>> \o o : o \in Orders(S \ {x})} : x \in S}

\* RunList.append(run): a run already in the list is not appended again;
\* otherwise the item joins the list and events.added is emitted.
RunList_append(s, run) ==
    IF run \in RunSet(s.runs) THEN s
    ELSE Only({_on_run_added(s1, run) : s1 \in {[s EXCEPT !.runs = Append(@, run)]}})

\* RunList.remove(run): the item leaves the list, then events.removed is emitted.
RunList_remove(s, run) ==
    Only({_on_run_removed(s1, run)
          : s1 \in {[s EXCEPT !.runs = RemoveAt(@, IndexOf(@, run))]}})

\* Variant of add_run that appends and notifies whether or not the run is
\* already in the list.
add_run_appending_again(s, run, pin) ==
    Only({_on_run_added([s1 EXCEPT !.runs = Append(@, run)], run)
          : s1 \in {IF pin THEN [s EXCEPT !.pinned = @ \cup {run}] ELSE s}})

\* add_run: plot_builders.py 207-219
add_run(s, run, pin) ==
    Only({RunList_append(s1, run)
          : s1 \in {IF pin THEN [s EXCEPT !.pinned = @ \cup {run}] ELSE s}})

\* Variant of discard_run without the membership test: the removal handler
\* runs for a run that is not in the list as well.
discard_run_unguarded(s, run) ==
    IF run \in RunSet(s.runs) THEN RunList_remove(s, run) ELSE _on_run_removed(s, run)

\* discard_run: plot_builders.py 221-232
discard_run(s, run) ==
    IF run \in RunSet(s.runs) THEN RunList_remove(s, run) ELSE s

\* max_runs setter: plot_builders.py 319-322
set_max_runs(s, value) ==
    Only({_cull_runs(s1) : s1 \in {[s EXCEPT !.max_runs = value]}})

\* ---------------------------------------------------------------- actions
\* How run stands in the current state: in the registry, pinned, and with an
\* indexed uuid whose line is no longer in the axes.
Pre(run) ==
    [tracked |-> run \in RunSet(runs),
     pinned |-> run \in pinned,
     missing |-> /\ run \in DOMAIN runs_to_lines
                 /\ \E u \in runs_to_lines[run] : \A l \in lines : l.uuid # u]

NoHist == [ok |-> FALSE, adds |-> <<>>, okp |-> FALSE, padds |-> <<>>]

Commit(s0, op, run) ==
    \E s \in {s0} :
    /\ runs' = s.runs
    /\ pinned' = s.pinned
    /\ max_runs' = s.max_runs
    /\ runs_to_lines' = s.runs_to_lines
    /\ lines' = s.lines
    /\ color_cycle' = s.color_cycle
    /\ new_stream_cb' = s.new_stream_cb
    /\ completed_cb' = s.completed_cb
    /\ streams' = s.streams
    /\ completed' = s.completed
    /\ err' = s.err
    /\ last' = [op |-> op, run |-> run, evicted |-> s.evicted, pre |-> Pre(run)]
    /\ hist' = IF op \in {"new_stream", "completed"} THEN hist
               ELSE IF op \in {"add_run", "add_run_pinned"}
               THEN LET a == IF op = "add_run" /\ hist.ok /\ run \notin RunSet(hist.adds)
                             THEN [ok |-> TRUE, adds |-> Append(hist.adds, run)]
                             ELSE [ok |-> FALSE, adds |-> <<>>]
                        p == IF /\ hist.okp
                                /\ \A k \in 1..Len(hist.padds) : hist.padds[k].run # run
                                /\ needs_streams \subseteq streams[run]
                             THEN [okp |-> TRUE,
                                   padds |-> Append(hist.padds,
                                               [run |-> run, pin |-> op = "add_run_pinned"])]
                             ELSE [okp |-> FALSE, padds |-> <<>>]
                    IN  [ok |-> a.ok, adds |-> a.adds, okp |-> p.okp, padds |-> p.padds]
               ELSE NoHist
    /\ steps' = steps + 1
    /\ UNCHANGED <<ys, ctor, im, arr, ras, pair, qt>>

\* The controller as constructed, and runs it has not seen yet.  Uids are
\* only compared for equality, so the runs are numbered with those that have
\* more of their required streams first.
Init ==
    /\ runs = <<>>
    /\ pinned = {}
    /\ max_runs \in 0..MaxMaxRuns
    /\ ys \in {[k \in 1..n |-> k] : n \in 0..MaxYs}
    /\ runs_to_lines = <<>>
    /\ lines = {}
    /\ color_cycle = 0
    /\ new_stream_cb = {}
    /\ completed_cb = {}
    /\ streams \in {f \in [Runs -> SUBSET needs_streams] :
                       \A r1, r2 \in Runs :
                           r1 < r2 => Cardinality(f[r2]) <= Cardinality(f[r1])}
    /\ completed = [r \in Runs |-> FALSE]
    /\ err = "none"
    /\ steps = 0
    /\ last = [op |-> "init", run |-> 0, evicted |-> {},
               pre |-> [tracked |-> FALSE, pinned |-> FALSE, missing |-> FALSE]]
    /\ hist = [ok |-> TRUE, adds |-> <<>>, okp |-> TRUE, padds |-> <<>>]
    /\ ctor = Absent
    /\ pair = Absent
    /\ qt = Absent
    /\ im = Absent
    /\ arr = Absent
    /\ ras = Absent

AddRun(r, pin) ==
    /\ steps < MaxSteps
    /\ Commit(add_run(State, r, pin), IF pin THEN "add_run_pinned" ELSE "add_run", r)

DiscardRun(r) ==
    /\ steps < MaxSteps
    /\ Commit(discard_run(State, r), "discard_run", r)

SetMaxRuns(v) ==
    /\ steps < MaxSteps
    /\ Commit(set_max_runs(State, v), "max_runs", 0)

\* The run gains stream st and emits new_stream to the handlers connected.
\* A stream outside needs_streams stands for any unrelated stream: it may
\* arrive any number of times (each time another stream).
NewStream(r, st) ==
    /\ steps < MaxSteps
    /\ ~completed[r]
    /\ st \notin streams[r]
    /\ LET s == [State EXCEPT !.streams[r] = @ \cup ({st} \cap needs_streams)]
       IN  Commit(IF r \in new_stream_cb THEN _on_new_stream(s, r) ELSE s,
                  "new_stream", r)

\* The run emits completed to the handlers connected.
RunCompleted(r) ==
    /\ steps < MaxSteps
    /\ LET s == [State EXCEPT !.completed[r] = TRUE]
       IN  IF r \in completed_cb
           THEN \E order \in Orders(Lookup(s, r).runs_to_lines[r]) :
                   Commit(_on_run_complete(s, r, order), "completed", r)
           ELSE Commit(s, "completed", r)

\* Somebody other than the controller removes a line from the axes.
ExternalRemove(l) ==
    /\ steps < MaxSteps
    /\ Commit([State EXCEPT !.lines = @ \ {l}], "external_remove", l.run)

Next ==
    \/ \E r \in Runs, pin \in BOOLEAN : AddRun(r, pin)
    \/ \E r \in Runs : DiscardRun(r)
    \/ \E v \in 0..MaxMaxRuns : SetMaxRuns(v)
    \/ \E r \in Runs, st \in Streams : NewStream(r, st)
    \/ \E r \in Runs : RunCompleted(r)
    \/ \E l \in lines : ExternalRemove(l)

Spec == Init /\ [][Next]_vars

\* The controller when nobody else removes lines from the axes.
NextNoExternal ==
    \/ \E r \in Runs, pin \in BOOLEAN : AddRun(r, pin)
    \/ \E r \in Runs : DiscardRun(r)
    \/ \E v \in 0..MaxMaxRuns : SetMaxRuns(v)
    \/ \E r \in Runs, st \in Streams : NewStream(r, st)
    \/ \E r \in Runs : RunCompleted(r)

SpecNoExternal == Init /\ [][NextNoExternal]_vars

\* ------------------------------------------------ RecentLines.__init__
\* The RecentLines variables where no RecentLines is at work.
RecentLinesIdle ==
    /\ runs = <<>>
    /\ pinned = {}
    /\ max_runs = 0
    /\ ys = <<>>
    /\ runs_to_lines = <<>>
    /\ lines = {}
    /\ color_cycle = 0
    /\ new_stream_cb = {}
    /\ completed_cb = {}
    /\ streams = [r \in Runs |-> {}]
    /\ completed = [r \in Runs |-> FALSE]
    /\ err = "none"
    /\ steps = 0
    /\ last = [op |-> "init", run |-> 0, evicted |-> {},
               pre |-> [tracked |-> FALSE, pinned |-> FALSE, missing |-> FALSE]]
    /\ hist = NoHist

\* The arguments of RecentLines(max_runs, x, ys, label_maker=, needs_streams=,
\* axes=).  ys is a str or a list, of some length; x and namespace are only
\* stored.
CtorArgs ==
    [max_runs : 0..MaxMaxRuns,
     ys : [kind : {"str", "list"}, len : 0..MaxYs],
     label_maker : {"None", "given"},
     needs_streams : SUBSET Streams,
     axes : {"None", "given"}]

\* Variant of __init__ without the isinstance(ys, str) test: tuple(ys) of a
\* string is the tuple of its characters.
RecentLines_init_no_str_test(a) ==
    [class |-> "RecentLines", state |-> "constructed", args |-> a, err |-> "none",
     self |-> [max_runs |-> a.max_runs,
               ys |-> [k \in 1..a.ys.len |-> k],
               label_maker |-> a.label_maker,
               needs_streams |-> a.needs_streams,
               figure |-> IF a.axes = "None" THEN "new" ELSE "of_axes"]]

\* __init__: plot_builders.py 143-202.  The statements in their order: the
\* default label_maker is chosen by len(ys) (a str has a len), max_runs is
\* stored, then ys is tested.
RecentLines_init(a) ==
    LET label_maker ==
            IF a.label_maker = "None"
            THEN (IF a.ys.len > 1 THEN "scan_id_and_y" ELSE "scan_id")
            ELSE a.label_maker
    IN  IF a.ys.kind = "str"
        THEN [class |-> "RecentLines", state |-> "raised", args |-> a,
              err |-> "ValueError", self |-> Absent]
        ELSE [class |-> "RecentLines", state |-> "constructed", args |-> a,
              err |-> "none",
              self |-> [max_runs |-> a.max_runs,
                        ys |-> [k \in 1..a.ys.len |-> k],
                        label_maker |-> label_maker,
                        needs_streams |-> a.needs_streams,
                        figure |-> IF a.axes = "None" THEN "new" ELSE "of_axes"]]

InitCtor ==
    /\ RecentLinesIdle
    /\ pair = Absent
    /\ qt = Absent
    /\ ctor \in {[class |-> "RecentLines", state |-> "call", args |-> a,
                   err |-> "none", self |-> Absent] : a \in CtorArgs}
    /\ im = Absent
    /\ arr = Absent
    /\ ras = Absent

Construct ==
    /\ ctor.state = "call"
    /\ ctor' = RecentLines_init(ctor.args)
    /\ UNCHANGED <<recent_lines, im, arr, ras, pair, qt>>

NextCtor == Construct

SpecCtor == InitCtor /\ [][NextCtor]_vars

\* ------------------------------------------- Image and RasteredImage
\* Axes limits are kept in half units: (-0.5, cols - 0.5) is <<-1, 2*cols - 1>>.
\* None is <<>>.
None == <<>>

\* The data of run r: Image reads its shape from run.primary.read()[field],
\* RasteredImage from the start document.  Runs differ in shape.
ImShape(r) == [rows |-> r, cols |-> r + 1]

XValues == {"right", "left"}
YValues == {"up", "down"}
\* A value that is neither.
Sideways == "sideways"

\* The limits a caller gives to the axes: increasing, decreasing, equal.
CallerLimits == {<<-1, 3>>, <<3, -1>>, <<1, 1>>}

\* The values a caller gives to cmap, clim and extent; the first of each is
\* the default of RasteredImage.__init__.
CmapValues == {"viridis", "gray"}
ClimValues == {"None", "0_to_1"}
ExtentValues == {"None", "box"}

\* A style key that an ImageSpec was made without.
Unset == "unset"
NoStyle == [cmap |-> Unset, clim |-> Unset, extent |-> Unset]

\* style = {'cmap': self._cmap, 'clim': self._clim, 'extent': self._extent}:
\* plot_builders.py 683.
StyleOf(m) == [cmap |-> m.cmap, clim |-> m.clim, extent |-> m.extent]

ImArgs ==
    {[class |-> "Image", x_positive |-> "right", y_positive |-> "up"]}
      \cup {[class |-> "RasteredImage", x_positive |-> x, y_positive |-> y]
              : x \in XValues \cup {Sideways}, y \in YValues \cup {Sideways}}

\* Image.__init__: plot_builders.py 396-433; RasteredImage.__init__: 544-592.
\* Both store their arguments and test none; the axes are new (limits None).
Image_init(m) ==
    [m EXCEPT !.state = "constructed",
              !.x_positive = m.args.x_positive,
              !.y_positive = m.args.y_positive,
              !.run = 0, !.images = <<>>,
              !.x_limits = None, !.y_limits = None,
              !.cmap = IF m.class = "RasteredImage" THEN "viridis" ELSE Unset,
              !.clim = IF m.class = "RasteredImage" THEN "None" ELSE Unset,
              !.extent = IF m.class = "RasteredImage" THEN "None" ELSE Unset]

\* Image._add_image: plot_builders.py 446-461.  Reading the data of a run
\* that has none raises before the image is appended.
Image_add_image(m) ==
    IF ~m.has_data[m.run]
    THEN [m EXCEPT !.err = "LookupError"]
    ELSE [m EXCEPT
            !.images = Append(@, [run |-> m.run, style |-> NoStyle]),
            !.title = m.run,
            !.x_limits = IF @ = None THEN <<-1, 2 * ImShape(m.run).cols - 1>> ELSE @,
            !.y_limits = IF @ = None THEN <<-1, 2 * ImShape(m.run).rows - 1>> ELSE @]

\* Variant of RasteredImage._add_image whose default limits always increase.
RasteredImage_add_image_increasing(m) ==
    IF ~m.has_data[m.run]
    THEN [m EXCEPT !.images = Append(@, [run |-> m.run, style |-> StyleOf(m)]),
                   !.title = m.run,
                   !.err = "KeyError"]
    ELSE [m EXCEPT
            !.images = Append(@, [run |-> m.run, style |-> StyleOf(m)]),
            !.title = m.run,
            !.x_limits = IF @ = None /\ m.x_positive \in XValues
                         THEN <<-1, 2 * ImShape(m.run).cols - 1>> ELSE @,
            !.y_limits = IF @ = None /\ m.y_positive \in YValues
                         THEN <<-1, 2 * ImShape(m.run).rows - 1>> ELSE @]

\* RasteredImage._add_image: plot_builders.py 681-702.  The image is
\* appended and the title set before md["motors"] and md["shape"] are read.
RasteredImage_add_image(m) ==
    IF ~m.has_data[m.run]
    THEN [m EXCEPT !.images = Append(@, [run |-> m.run, style |-> StyleOf(m)]),
                   !.title = m.run,
                   !.err = "KeyError"]
    ELSE [m EXCEPT
            !.images = Append(@, [run |-> m.run, style |-> StyleOf(m)]),
            !.title = m.run,
            !.x_limits = IF @ = None /\ m.x_positive = "right"
                         THEN <<-1, 2 * ImShape(m.run).cols - 1>>
                         ELSE IF @ = None /\ m.x_positive = "left"
                         THEN <<2 * ImShape(m.run).cols - 1, -1>>
                         ELSE @,
            !.y_limits = IF @ = None /\ m.y_positive = "up"
                         THEN <<-1, 2 * ImShape(m.run).rows - 1>>
                         ELSE IF @ = None /\ m.y_positive = "down"
                         THEN <<2 * ImShape(m.run).rows - 1, -1>>
                         ELSE @]

\* Variant of the run setter without self.axes.images.clear().
set_run_keeping_images(m, value) ==
    LET m1 == [m EXCEPT !.run = value]
    IN  IF value = 0 THEN m1
        ELSE IF m.class = "Image" THEN Image_add_image(m1)
        ELSE RasteredImage_add_image(m1)

\* The run setter: plot_builders.py 439-444 (Image), 674-679 (RasteredImage).
set_run(m, value) ==
    LET m1 == [m EXCEPT !.run = value, !.images = <<>>]
    IN  IF value = 0 THEN m1
        ELSE IF m.class = "Image" THEN Image_add_image(m1)
        ELSE RasteredImage_add_image(m1)

\* The x_positive getter: plot_builders.py 624-631.  Unpacking limits that
\* are None raises TypeError.
get_x_positive(m) ==
    IF m.x_limits = None THEN [m EXCEPT !.err = "TypeError"]
    ELSE LET v == IF m.x_limits[1] > m.x_limits[2] THEN "left" ELSE "right"
         IN  [m EXCEPT !.x_positive = v, !.got = v]

\* The y_positive getter: plot_builders.py 647-654.
get_y_positive(m) ==
    IF m.y_limits = None THEN [m EXCEPT !.err = "TypeError"]
    ELSE LET v == IF m.y_limits[1] > m.y_limits[2] THEN "down" ELSE "up"
         IN  [m EXCEPT !.y_positive = v, !.got = v]

\* Variant of the x_positive setter that stores the value before it tests it.
set_x_positive_store_first(m, value) ==
    IF value \notin XValues THEN [m EXCEPT !.x_positive = value, !.err = "ValueError"]
    ELSE IF m.x_limits = None THEN [m EXCEPT !.x_positive = value, !.err = "TypeError"]
    ELSE LET xmin == m.x_limits[1]
             xmax == m.x_limits[2]
         IN  [m EXCEPT !.x_positive = value,
                       !.x_limits = IF (xmin > xmax /\ value = "right")
                                        \/ (xmax > xmin /\ value = "left")
                                     THEN <<xmax, xmin>> ELSE <<xmin, xmax>>]

\* The x_positive setter: plot_builders.py 633-645.  The value is tested,
\* stored, and then the limits are unpacked.
set_x_positive(m, value) ==
    IF value \notin XValues THEN [m EXCEPT !.err = "ValueError"]
    ELSE IF m.x_limits = None THEN [m EXCEPT !.x_positive = value, !.err = "TypeError"]
    ELSE LET xmin == m.x_limits[1]
             xmax == m.x_limits[2]
         IN  [m EXCEPT !.x_positive = value,
                       !.x_limits = IF (xmin > xmax /\ value = "right")
                                        \/ (xmax > xmin /\ value = "left")
                                     THEN <<xmax, xmin>> ELSE <<xmin, xmax>>]

\* The y_positive setter: plot_builders.py 656-668.
set_y_positive(m, value) ==
    IF value \notin YValues THEN [m EXCEPT !.err = "ValueError"]
    ELSE IF m.y_limits = None THEN [m EXCEPT !.y_positive = value, !.err = "TypeError"]
    ELSE LET ymin == m.y_limits[1]
             ymax == m.y_limits[2]
         IN  [m EXCEPT !.y_positive = value,
                       !.y_limits = IF (ymin > ymax /\ value = "up")
                                        \/ (ymax > ymin /\ value = "down")
                                     THEN <<ymax, ymin>> ELSE <<ymin, ymax>>]

\* Variant of the cmap setter that stores the value and leaves the images.
set_cmap_not_pushed(m, value) == [m EXCEPT !.cmap = value]

\* The cmap setter: plot_builders.py 598-602.
set_cmap(m, value) ==
    [m EXCEPT !.cmap = value,
              !.images = [k \in 1..Len(m.images) |->
                            [m.images[k] EXCEPT !.style.cmap = value]]]

\* The clim setter: plot_builders.py 608-612.
set_clim(m, value) ==
    [m EXCEPT !.clim = value,
              !.images = [k \in 1..Len(m.images) |->
                            [m.images[k] EXCEPT !.style.clim = value]]]

\* The extent setter: plot_builders.py 618-622.
set_extent(m, value) ==
    [m EXCEPT !.extent = value,
              !.images = [k \in 1..Len(m.images) |->
                            [m.images[k] EXCEPT !.style.extent = value]]]

\* An operation on the controller begins: no exception yet, nothing returned,
\* and the record of which operation it is.
Begin(m, op, arg) ==
    [m EXCEPT !.err = "none", !.got = "", !.last = [op |-> op, arg |-> arg],
              !.steps = @ + 1]

ImStep(m) ==
    /\ im' = m
    /\ UNCHANGED <<recent_lines, ctor, arr, ras, pair, qt>>

InitImage ==
    /\ RecentLinesIdle
    /\ ctor = Absent
    /\ pair = Absent
    /\ qt = Absent
    /\ arr = Absent
    /\ ras = Absent
    /\ im \in {[class |-> a.class, state |-> "call", args |-> a,
                 has_data |-> d,
                 run |-> 0, images |-> <<>>, title |-> 0,
                 x_limits |-> None, y_limits |-> None,
                 x_positive |-> "", y_positive |-> "",
                 cmap |-> Unset, clim |-> Unset, extent |-> Unset,
                 by_caller |-> [x |-> FALSE, y |-> FALSE],
                 err |-> "none", got |-> "", steps |-> 0,
                 last |-> [op |-> "call", arg |-> ""]]
                : a \in ImArgs, d \in [Runs -> BOOLEAN]}

ConstructImage ==
    /\ im.state = "call"
    /\ ImStep(Image_init(Begin(im, "init", "")))

Ready == im.state = "constructed" /\ im.steps < MaxSteps

SetRun(v) ==
    /\ Ready
    /\ ImStep(set_run(Begin(im, "set_run", ""), v))

GetXPositive ==
    /\ Ready
    /\ im.class = "RasteredImage"
    /\ ImStep(get_x_positive(Begin(im, "get_x_positive", "")))

GetYPositive ==
    /\ Ready
    /\ im.class = "RasteredImage"
    /\ ImStep(get_y_positive(Begin(im, "get_y_positive", "")))

SetXPositive(v) ==
    /\ Ready
    /\ im.class = "RasteredImage"
    /\ ImStep(set_x_positive(Begin(im, "set_x_positive", v), v))

SetYPositive(v) ==
    /\ Ready
    /\ im.class = "RasteredImage"
    /\ ImStep(set_y_positive(Begin(im, "set_y_positive", v), v))

\* The caller assigns limits to the axes.
CallerSetsXLimits(l) ==
    /\ Ready
    /\ ImStep([Begin(im, "caller_x_limits", "") EXCEPT !.x_limits = l, !.by_caller.x = TRUE])

CallerSetsYLimits(l) ==
    /\ Ready
    /\ ImStep([Begin(im, "caller_y_limits", "") EXCEPT !.y_limits = l, !.by_caller.y = TRUE])

NextImage ==
    \/ ConstructImage
    \/ \E v \in {0} \cup Runs : SetRun(v)
    \/ GetXPositive
    \/ GetYPositive
    \/ \E v \in XValues \cup {Sideways} : SetXPositive(v)
    \/ \E v \in YValues \cup {Sideways} : SetYPositive(v)
    \/ \E l \in CallerLimits : CallerSetsXLimits(l)
    \/ \E l \in CallerLimits : CallerSetsYLimits(l)

SpecImage == InitImage /\ [][NextImage]_vars

\* The style of a RasteredImage: assignments to run, cmap, clim and extent.
SetCmap(v) ==
    /\ Ready
    /\ im.class = "RasteredImage"
    /\ ImStep(set_cmap(Begin(im, "set_cmap", v), v))

SetClim(v) ==
    /\ Ready
    /\ im.class = "RasteredImage"
    /\ ImStep(set_clim(Begin(im, "set_clim", v), v))

SetExtent(v) ==
    /\ Ready
    /\ im.class = "RasteredImage"
    /\ ImStep(set_extent(Begin(im, "set_extent", v), v))

NextStyle ==
    \/ ConstructImage
    \/ \E v \in {0} \cup Runs : SetRun(v)
    \/ \E v \in CmapValues : SetCmap(v)
    \/ \E v \in ClimValues : SetClim(v)
    \/ \E v \in ExtentValues : SetExtent(v)

SpecStyle == InitImage /\ [][NextStyle]_vars

\* --------------------------------------------------- Image._transform
\* A numpy array: its shape and its entries in row-major order.  The entries
\* of an input array are 0, 1, 2, ... so that an entry tells where it was.
RECURSIVE Product(_)
Product(s) == IF s = <<>> THEN 1 ELSE Head(s) * Product(Tail(s))

Iota(n) == [k \in 1..n |-> k - 1]

ArrayShapes == UNION {[1..n -> 1..MaxDim] : n \in 1..MaxNdim}

\* data[k] for an array of more than one axis: the k-th block along axis 0.
Index0(a, k) ==
    LET rest == Tail(a.shape)
        size == Product(rest)
    IN  [shape |-> rest, data |-> SubSeq(a.data, k * size + 1, (k + 1) * size)]

\* Variant of Image._transform that takes the first entry of the leading
\* axis instead of the middle one.
RECURSIVE Image_transform_first(_)
Image_transform_first(a) ==
    IF Len(a.shape) > 2 THEN Image_transform_first(Index0(a, 0)) ELSE a

\* Image._transform: plot_builders.py 463-472, the loop on the array that
\* call_or_eval returned.
RECURSIVE Image_transform(_)
Image_transform(a) ==
    IF Len(a.shape) > 2
    THEN LET middle == a.shape[1] \div 2
         IN  Image_transform(Index0(a, middle))
    ELSE a

InitArray ==
    /\ RecentLinesIdle
    /\ ctor = Absent
    /\ pair = Absent
    /\ qt = Absent
    /\ im = Absent
    /\ ras = Absent
    /\ arr \in {[class |-> "array", state |-> "call",
                  in |-> [shape |-> s, data |-> Iota(Product(s))],
                  out |-> [shape |-> <<>>, data |-> <<>>]] : s \in ArrayShapes}

Transform ==
    /\ arr.state = "call"
    /\ arr' = [arr EXCEPT !.state = "returned", !.out = Image_transform(arr.in)]
    /\ UNCHANGED <<recent_lines, ctor, im, ras, pair, qt>>

NextArray == Transform

SpecArray == InitArray /\ [][NextArray]_vars

\* ------------------------------------------- RasteredImage._transform
\* numpy.nan, the value of a cell without data; the data are 0, 1, 2, ...
NaN == -1

RasterConfigs ==
    [rows : 1..MaxRows, cols : 1..MaxCols, snaking : [1..2 -> BOOLEAN]]

\* numpy.unravel_index(i, shape) for a shape of two axes, row-major.
unravel_index(i, shape) == <<i \div shape.cols, i % shape.cols>>

\* Variant of the loop that mirrors the column in every row, not only the
\* odd ones.
RECURSIVE RasterLoop_every_row(_, _, _, _)
RasterLoop_every_row(i_data, data, cfg, i) ==
    IF i >= Len(data) THEN [grid |-> i_data, err |-> "none"]
    ELSE IF i >= cfg.rows * cfg.cols THEN [grid |-> i_data, err |-> "ValueError"]
    ELSE LET pos == unravel_index(i, cfg)
             col == IF cfg.snaking[2] THEN cfg.cols - pos[2] - 1 ELSE pos[2]
         IN  RasterLoop_every_row([i_data EXCEPT ![pos[1] + 1][col + 1] = data[i + 1]],
                                  data, cfg, i + 1)

\* Variant of the loop that mirrors a snaked row about the wrong column
\* (shape[1] - pos[1] - 2, kept inside the row): two data of the row can
\* land in one cell.
RECURSIVE RasterLoop_off_centre(_, _, _, _)
RasterLoop_off_centre(i_data, data, cfg, i) ==
    IF i >= Len(data) THEN [grid |-> i_data, err |-> "none"]
    ELSE IF i >= cfg.rows * cfg.cols THEN [grid |-> i_data, err |-> "ValueError"]
    ELSE LET pos == unravel_index(i, cfg)
             col == IF cfg.snaking[2] /\ (pos[1] % 2 = 1)
                    THEN (IF cfg.cols - pos[2] - 2 < 0 THEN 0
                          ELSE cfg.cols - pos[2] - 2)
                    ELSE pos[2]
         IN  RasterLoop_off_centre([i_data EXCEPT ![pos[1] + 1][col + 1] = data[i + 1]],
                                   data, cfg, i + 1)

\* The loop of RasteredImage._transform: plot_builders.py 710-715.
\* unravel_index raises ValueError for an index past the end of the shape.
RECURSIVE RasterLoop(_, _, _, _)
RasterLoop(i_data, data, cfg, i) ==
    IF i >= Len(data) THEN [grid |-> i_data, err |-> "none"]
    ELSE IF i >= cfg.rows * cfg.cols THEN [grid |-> i_data, err |-> "ValueError"]
    ELSE LET pos == unravel_index(i, cfg)
             col == IF cfg.snaking[2] /\ (pos[1] % 2 = 1)
                    THEN cfg.cols - pos[2] - 1 ELSE pos[2]
         IN  RasterLoop([i_data EXCEPT ![pos[1] + 1][col + 1] = data[i + 1]],
                        data, cfg, i + 1)

\* Variant of RasteredImage._transform that starts from a grid of zeros.
RasteredImage_transform_zeros(data, cfg) ==
    RasterLoop([r \in 1..cfg.rows |-> [c \in 1..cfg.cols |-> 0]], data, cfg, 0)

\* RasteredImage._transform: plot_builders.py 704-717.
RasteredImage_transform(data, cfg) ==
    RasterLoop([r \in 1..cfg.rows |-> [c \in 1..cfg.cols |-> NaN]], data, cfg, 0)

InitRaster ==
    /\ RecentLinesIdle
    /\ ctor = Absent
    /\ pair = Absent
    /\ qt = Absent
    /\ im = Absent
    /\ arr = Absent
    /\ ras \in {[class |-> "raster", cfg |-> cfg, data |-> <<>>,
                  rendered |-> FALSE, n |-> 0,
                  grid |-> [r \in 1..cfg.rows |-> [c \in 1..cfg.cols |-> NaN]],
                  err |-> "none"] : cfg \in RasterConfigs}

\* The run acquires its next point.  A run can bring one point more than the
\* shape has cells.
Acquire ==
    /\ Len(ras.data) <= ras.cfg.rows * ras.cfg.cols
    /\ ras' = [ras EXCEPT !.data = Append(@, Len(@))]
    /\ UNCHANGED <<recent_lines, ctor, im, arr, pair, qt>>

\* The view renders: it calls the transform on the data there are.  When the
\* transform raises, no grid is returned and the one shown stays.
Render ==
    /\ LET res == RasteredImage_transform(ras.data, ras.cfg)
       IN  ras' = [ras EXCEPT !.rendered = TRUE,
                              !.n = Len(ras.data),
                              !.err = res.err,
                              !.grid = IF res.err = "none" THEN res.grid ELSE @]
    /\ UNCHANGED <<recent_lines, ctor, im, arr, pair, qt>>

NextRaster == Acquire \/ Render

SpecRaster == InitRaster /\ [][NextRaster]_vars

\* ------------------------------------------ two RecentLines at once
\* Two controllers made in one process.  What __init__ makes for a controller
\* (its RunList, pin set, index, colour iterator, and its axes unless the
\* caller gives them) is an object of its own; the record pair holds the
\* objects: pair.ctl[c] the attributes of controller c, with the ids of its
\* axes and of its colour iterator, pair.axes and pair.cycle the objects
\* those ids name.  The runs are the caller's and both controllers see them;
\* every run has its required streams.
Controllers == {1, 2}

\* Variant of line 186 that takes one iterator kept by the module for every
\* controller.
new_color_cycle_of_module(p) == 1

\* self._color_cycle = itertools.cycle(...): plot_builders.py 186.  The call
\* makes a new iterator; the id is one that names no iterator yet.
new_color_cycle(p) == Cardinality(DOMAIN p.cycle) + 1

\* __init__ for controller c: plot_builders.py 174-202.  axes = 0 is
\* axes=None (the controller makes an AxesSpec), another value is the id of
\* axes the caller gives.
RecentLines_init_in(p, c, mr, axes) ==
    LET cyc == new_color_cycle(p)
        ax == IF axes = 0 THEN Cardinality(DOMAIN p.axes) + 1 ELSE axes
    IN  [p EXCEPT
           !.ctl = [d \in (DOMAIN p.ctl) \cup {c} |->
                      IF d = c
                      THEN [runs |-> <<>>, pinned |-> {}, max_runs |-> mr,
                            runs_to_lines |-> <<>>, new_stream_cb |-> {},
                            completed_cb |-> {}, axes |-> ax, cycle |-> cyc]
                      ELSE p.ctl[d]],
           !.cycle = [i \in (DOMAIN p.cycle) \cup {cyc} |-> IF i = cyc THEN 0 ELSE p.cycle[i]],
           !.axes = [i \in (DOMAIN p.axes) \cup {ax} |->
                       IF i \in DOMAIN p.axes THEN p.axes[i] ELSE {}]]

\* The state record a handler of controller c works on.
View(p, c) ==
    [runs |-> p.ctl[c].runs, pinned |-> p.ctl[c].pinned,
     max_runs |-> p.ctl[c].max_runs,
     runs_to_lines |-> p.ctl[c].runs_to_lines,
     lines |-> p.axes[p.ctl[c].axes],
     color_cycle |-> p.cycle[p.ctl[c].cycle],
     new_stream_cb |-> p.ctl[c].new_stream_cb,
     completed_cb |-> p.ctl[c].completed_cb,
     streams |-> [r \in Runs |-> needs_streams],
     completed |-> p.completed, err |-> "none", evicted |-> {}]

\* The objects after a handler of controller c has left state record s.
Store(p, c, s) ==
    [p EXCEPT
       !.ctl[c] = [runs |-> s.runs, pinned |-> s.pinned, max_runs |-> s.max_runs,
                   runs_to_lines |-> s.runs_to_lines,
                   new_stream_cb |-> s.new_stream_cb,
                   completed_cb |-> s.completed_cb,
                   axes |-> p.ctl[c].axes, cycle |-> p.ctl[c].cycle],
       !.axes[p.ctl[c].axes] = s.lines,
       !.cycle[p.ctl[c].cycle] = s.color_cycle,
       !.err = IF s.err # "none" THEN s.err ELSE @]

\* The completed event of run r reaches the handler of controller c, if c
\* has connected one.
Deliver(p, c, r, order) ==
    IF r \in p.ctl[c].completed_cb
    THEN Store(p, c, _on_run_complete(View(p, c), r, order))
    ELSE p

IndexedIn(p, c, r) == Lookup(View(p, c), r).runs_to_lines[r]

NoObjects ==
    [class |-> "pair", ctl |-> <<>>, axes |-> <<>>, cycle |-> <<>>,
     completed |-> [r \in Runs |-> FALSE], err |-> "none", steps |-> 0,
     last |-> [op |-> "init", who |-> 0, run |-> 0]]

InitPair ==
    /\ runs = <<>>
    /\ pinned = {}
    /\ max_runs = 0
    /\ ys \in {[k \in 1..n |-> k] : n \in 1..MaxYs}
    /\ runs_to_lines = <<>>
    /\ lines = {}
    /\ color_cycle = 0
    /\ new_stream_cb = {}
    /\ completed_cb = {}
    /\ streams = [r \in Runs |-> {}]
    /\ completed = [r \in Runs |-> FALSE]
    /\ err = "none"
    /\ steps = 0
    /\ last = [op |-> "init", run |-> 0, evicted |-> {},
               pre |-> [tracked |-> FALSE, pinned |-> FALSE, missing |-> FALSE]]
    /\ hist = NoHist
    /\ ctor = Absent
    /\ im = Absent
    /\ arr = Absent
    /\ ras = Absent
    /\ qt = Absent
    /\ pair \in {RecentLines_init_in(RecentLines_init_in(NoObjects, 1, m1, 0), 2, m2, ax)
                   : m1 \in 0..MaxMaxRuns, m2 \in 0..MaxMaxRuns, ax \in {0, 1}}

PairStep(p, op, who, r) ==
    /\ pair' = [p EXCEPT !.steps = pair.steps + 1,
                         !.last = [op |-> op, who |-> who, run |-> r]]
    /\ UNCHANGED <<recent_lines, ctor, im, arr, ras, qt>>

PairAddRun(c, r) ==
    /\ pair.steps < MaxPairSteps
    /\ PairStep(Store([pair EXCEPT !.err = "none"], c, add_run(View(pair, c), r, FALSE)),
                "add_run", c, r)

PairDiscardRun(c, r) ==
    /\ pair.steps < MaxPairSteps
    /\ PairStep(Store([pair EXCEPT !.err = "none"], c, discard_run(View(pair, c), r)),
                "discard_run", c, r)

\* Run r completes: its completed event calls the handlers connected to it,
\* those of controller 1 and of controller 2.
PairRunCompleted(r) ==
    /\ pair.steps < MaxPairSteps
    /\ ~pair.completed[r]
    /\ LET p0 == [pair EXCEPT !.err = "none", !.completed[r] = TRUE]
       IN  \E o1 \in Orders(IndexedIn(p0, 1, r)), o2 \in Orders(IndexedIn(p0, 2, r)) :
              PairStep(Deliver(Deliver(p0, 1, r, o1), 2, r, o2), "completed", 0, r)

NextPair ==
    \/ \E c \in Controllers, r \in Runs : PairAddRun(c, r)
    \/ \E c \in Controllers, r \in Runs : PairDiscardRun(c, r)
    \/ \E r \in Runs : PairRunCompleted(r)

SpecPair == InitPair /\ [][NextPair]_vars

\* ------------------------------------------- QtReManagerConnection
\* qt/run_engine_client.py 35-119.  All handlers run in the GUI thread, one
\* at a time.  A worker (FunctionWorker(self._reload_status)) runs in its own
\* thread: it loads the status, sleeps, and its finished signal then calls
\* _reload_complete in the GUI thread.  A button that is disabled emits no
\* clicked signal.
Workers == 1..MaxPolls

\* The text slot_update_widgets gives the label: lines 85-93 of that file.
StatusText(is_connected) ==
    IF is_connected = "True" THEN "ONLINE"
    ELSE IF is_connected = "False" THEN "OFFLINE"
    ELSE "-----"

\* _update_widget_states: lines 74-79.
_update_widget_states(q) ==
    [q EXCEPT !.connect_enabled = ~q.updates_activated,
              !.disconnect_enabled = q.updates_activated,
              !.label = "-----"]

\* model.clear_connection_status(), then the label follows the status.
clear_connection_status(q) ==
    [q EXCEPT !.status = "None", !.label = StatusText("None")]

\* _start_thread: lines 105-108.  The worker is new and begins to run.
_start_thread(q) ==
    [q EXCEPT !.thread = q.started + 1,
              !.started = q.started + 1,
              !.phase = [w \in Workers |-> IF w = q.started + 1 THEN "loading"
                                           ELSE q.phase[w]]]

\* _pb_re_manager_connect_clicked: lines 95-100.
_pb_re_manager_connect_clicked(q) ==
    _start_thread(
        _update_widget_states(
            clear_connection_status([q EXCEPT !.updates_activated = TRUE])))

\* Variant of the Disconnect handler that also refreshes the buttons.
_pb_re_manager_disconnect_clicked_refreshing(q) ==
    _update_widget_states([q EXCEPT !.updates_activated = FALSE])

\* _pb_re_manager_disconnect_clicked: lines 102-103.
_pb_re_manager_disconnect_clicked(q) ==
    [q EXCEPT !.updates_activated = FALSE]

\* _reload_complete: lines 110-115.
_reload_complete(q) ==
    IF q.updates_activated
    THEN _start_thread(q)
    ELSE _update_widget_states(clear_connection_status(q))

Running(q) == {w \in Workers : q.phase[w] \in {"loading", "sleeping"}}

\* __init__: lines 38-72.
InitQt ==
    /\ RecentLinesIdle
    /\ ctor = Absent
    /\ im = Absent
    /\ arr = Absent
    /\ ras = Absent
    /\ pair = Absent
    /\ qt = [class |-> "QtReManagerConnection",
             updates_activated |-> FALSE,
             thread |-> 0,
             started |-> 0,
             phase |-> [w \in Workers |-> "none"],
             connect_enabled |-> TRUE,
             disconnect_enabled |-> FALSE,
             label |-> "-----",
             status |-> "None",
             last |-> "init"]

QtStep(q, op) ==
    /\ qt' = [q EXCEPT !.last = op]
    /\ UNCHANGED <<recent_lines, ctor, im, arr, ras, pair>>

ConnectClicked ==
    /\ qt.started < MaxPolls
    /\ qt.connect_enabled
    /\ QtStep(_pb_re_manager_connect_clicked(qt), "connect")

DisconnectClicked ==
    /\ qt.disconnect_enabled
    /\ QtStep(_pb_re_manager_disconnect_clicked(qt), "disconnect")

\* _reload_status, first statement: worker w has loaded the status; the
\* model emits status_changed and the label follows (lines 81-93, 117-119).
WorkerLoaded(w, is_connected) ==
    /\ qt.phase[w] = "loading"
    /\ QtStep([qt EXCEPT !.phase[w] = "sleeping",
                         !.status = is_connected,
                         !.label = StatusText(is_connected)], "loaded")

\* Worker w has slept and ended; its finished signal runs _reload_complete.
WorkerFinished(w) ==
    /\ qt.phase[w] = "sleeping"
    /\ qt.updates_activated => qt.started < MaxPolls
    /\ QtStep(_reload_complete([qt EXCEPT !.phase[w] = "done"]), "finished")

NextQt ==
    \/ ConnectClicked
    \/ DisconnectClicked
    \/ \E w \in Workers, v \in {"True", "False"} : WorkerLoaded(w, v)
    \/ \E w \in Workers : WorkerFinished(w)

SpecQt == InitQt /\ [][NextQt]_vars

\* ============================================================== claims
Registry == RunSet(runs)

LinesOf(ls, r) == {l \in ls : l.run = r}

\* The uuids indexed under uid r (none when r has no entry).
Indexed(idx, r) == IF r \in DOMAIN idx THEN idx[r] ELSE {}

\* The lines in the axes indexed under uid r.
IndexedLines(idx, ls, r) == {l \in ls : l.uuid \in Indexed(idx, r)}

Awaiting(r) == r \in Registry /\ ~(needs_streams \subseteq streams[r])

LastN(seq, n) ==
    IF Len(seq) <= n THEN seq ELSE SubSeq(seq, Len(seq) - n + 1, Len(seq))

\* The usual configurations: the controller shows at least one run and plots
\* at least one y.  C1, C3-C6, C9 and C10 are stated for these: they fail there,
\* and so do not rest on max_runs = 0 or an empty ys.
Usual == max_runs >= 1 /\ Len(ys) >= 1

\* C1: after each operation that completed, len(runs) <= max_runs + len(pinned).
C1_CapacityInvariant ==
    (Usual /\ err = "none") => Len(runs) <= max_runs + Cardinality(pinned)

\* C2: a pinned run in the registry leaves it only through discard_run of that
\* run, never through eviction (an add_run or a max_runs assignment), and an
\* add_run with pinned=True leaves its run in the registry.
C2_PinExemption ==
    [][/\ \A r \in Runs :
            (r \in pinned /\ r \in Registry /\ r \notin RunSet(runs'))
                => (last'.op = "discard_run" /\ last'.run = r)
       /\ last'.op = "add_run_pinned" =>
            (last'.run \in RunSet(runs') /\ last'.run \notin last'.evicted)]_vars

\* C2 witness: the last operation evicted a run while the run at the front of
\* the registry, which the scan met first, is pinned, has its lines and stayed.
C2_Witness ==
    /\ last.op \in {"add_run", "add_run_pinned", "max_runs"}
    /\ last.evicted # {}
    /\ err = "none"
    /\ Len(runs) >= 1
    /\ runs[1] \in pinned
    /\ runs[1] # last.run
    /\ Len(ys) >= 1
    /\ Cardinality(LinesOf(lines, runs[1])) = Len(ys)

\* C3: after add_run of N > max_runs distinct runs, none pinned, the registry
\* holds exactly the max_runs most recently added runs, in arrival order.
C3_FifoEviction ==
    (Usual /\ hist.ok /\ Len(hist.adds) > max_runs)
        => runs = LastN(hist.adds, max_runs)

\* C4: a tracked run lacking a required stream has no line element; the
\* new-stream notification at which the required streams are first all present
\* creates exactly len(ys) elements for it; a later new-stream notification for
\* the same run creates no further element.
C4_DeferredActivation ==
    [][\A r \in Runs : Usual =>
        /\ (r \in RunSet(runs') /\ ~(needs_streams \subseteq streams'[r]))
              => LinesOf(lines', r) = {}
        /\ (Awaiting(r) /\ last'.op = "new_stream" /\ last'.run = r
               /\ needs_streams \subseteq streams'[r])
              => Cardinality(LinesOf(lines', r)) = Len(ys)
        /\ (needs_streams \subseteq streams[r] /\ last'.op = "new_stream"
               /\ last'.run = r)
              => LinesOf(lines', r) = LinesOf(lines, r)]_vars

\* C5: discard_run of a tracked run that still lacks a required stream raises
\* no error, and a later new-stream notification of that run with the required
\* stream present raises no error and leaves no line element for the run.
C5_DiscardBeforeActivation ==
    [][\A r \in Runs : Usual =>
        /\ (Awaiting(r) /\ last'.op = "discard_run" /\ last'.run = r)
              => err' = "none"
        /\ (r \notin Registry /\ ~(needs_streams \subseteq streams[r])
               /\ LinesOf(lines, r) = {}
               /\ last'.op = "new_stream" /\ last'.run = r
               /\ needs_streams \subseteq streams'[r])
              => (err' = "none" /\ LinesOf(lines', r) = {})]_vars

\* C6: the new-stream handler is connected only on runs that are in the
\* registry and still lack a required stream.
C6_NoDanglingSubscription ==
    Usual =>
        \A r \in new_stream_cb :
            r \in Registry /\ ~(needs_streams \subseteq streams[r])

\* C7: a line created for a run that is live and not completed is black; a
\* completion notification of a tracked run leaves every line indexed under
\* the run that is in the axes with a palette colour.
C7_CompletionRecoloring ==
    [][/\ last'.op \in {"add_run", "add_run_pinned", "new_stream"} =>
            \A l \in lines' \ lines : ~completed'[l.run] => l.color = Black
       /\ (last'.op = "completed" /\ last'.run \in Registry) =>
            \A l \in IndexedLines(runs_to_lines', lines', last'.run) :
                l.color \in Palette]_vars

\* C7 witness: a tracked run that was live when its len(ys) >= 2 lines were
\* created has just completed, and its lines carry palette colours.
C7_Witness ==
    /\ last.op = "completed"
    /\ last.run \in Registry
    /\ last.run \in completed_cb
    /\ Len(ys) >= 2
    /\ Cardinality(IndexedLines(runs_to_lines, lines, last.run)) = Len(ys)
    /\ \A l \in LinesOf(lines, last.run) : l.color \in Palette

\* C8 (as stated): a completion notification of a tracked run with elements in
\* the axes advances the palette position by exactly one.
C8_OneDrawPerCompletion ==
    [][(/\ Usual
        /\ last'.op = "completed"
        /\ last'.run \in Registry
        /\ last'.run \in completed_cb
        /\ IndexedLines(runs_to_lines, lines, last'.run) # {})
          => color_cycle' = (color_cycle + 1) % PaletteSize]_vars

\* C8 (amended): a completion notification delivered to the controller's
\* handler for a tracked run advances the palette position by the number of
\* elements indexed under the run that are in the axes; a completion the
\* controller has no handler connected for leaves the position unchanged.
C8_OneDrawPerElement ==
    [][(last'.op = "completed" /\ last'.run \in Registry) =>
          color_cycle' =
            IF last'.run \in completed_cb
            THEN (color_cycle
                    + Cardinality(IndexedLines(runs_to_lines, lines, last'.run)))
                 % PaletteSize
            ELSE color_cycle]_vars

\* C8 witness: a completion of a tracked run recoloured two lines with two
\* successive palette colours.
C8_Witness ==
    /\ last.op = "completed"
    /\ last.run \in Registry
    /\ last.run \in completed_cb
    /\ \E a, b \in IndexedLines(runs_to_lines, lines, last.run) :
          \E i \in 0..(PaletteSize - 1) :
          /\ a.color = ColorName(i)
          /\ b.color = ColorName((i + 1) % PaletteSize)
          /\ color_cycle = (i + 2) % PaletteSize

\* C9: once a completion notification has given a run's lines palette colours,
\* a further completion notification of the run changes neither the lines'
\* colours nor the palette position.
C9_RecolorOnce ==
    [][(/\ Usual
        /\ last'.op = "completed"
        /\ completed[last'.run]
        /\ last'.run \in completed_cb
        /\ IndexedLines(runs_to_lines, lines, last'.run) # {}
        /\ \A l \in IndexedLines(runs_to_lines, lines, last'.run) :
              l.color \in Palette)
          => (lines' = lines /\ color_cycle' = color_cycle)]_vars

\* C10: discard_run of a run in the registry raises no error and leaves the run
\* out of the registry, its uid out of the pin set and of the index, and no
\* line of the run in the axes.
C10_DiscardRemovesEverything ==
    [][\A r \in Registry :
        (Usual /\ last'.op = "discard_run" /\ last'.run = r) =>
            /\ err' = "none"
            /\ r \notin RunSet(runs')
            /\ r \notin pinned'
            /\ r \notin DOMAIN runs_to_lines'
            /\ LinesOf(lines', r) = {}]_vars

\* What the controller holds: everything but the runs' own state.
controller == <<runs, pinned, max_runs, ys, runs_to_lines, lines, color_cycle,
                new_stream_cb, completed_cb>>

\* C11: discard_run of a run that is not in the registry raises no error and
\* leaves the registry, the pin set, the index, the lines in the axes and the
\* palette position (and everything else the controller holds) unchanged.
C11_DiscardAbsentIsNoOp ==
    [][(last'.op = "discard_run" /\ last'.run \notin Registry) =>
          (err' = "none" /\ UNCHANGED controller)]_vars

\* C11 witness: discard_run of an untracked run has returned while the
\* controller holds a pinned run with lines and the palette has advanced.
C11_Witness ==
    /\ last.op = "discard_run"
    /\ ~last.pre.tracked
    /\ err = "none"
    /\ Len(runs) >= 1
    /\ pinned # {}
    /\ lines # {}
    /\ DOMAIN runs_to_lines # {}
    /\ color_cycle > 0

Occurrences(seq, r) == Cardinality({k \in 1..Len(seq) : seq[k] = r})

C13_EvictAwaitingRun ==
    [][\A r \in Registry :
        (/\ Usual
         /\ last'.op \in {"add_run", "add_run_pinned", "new_stream"}
         /\ r \in last'.evicted
         /\ r \notin DOMAIN runs_to_lines)
            => (err' = "none" /\ r \notin RunSet(runs'))]_vars

\* C14: a completion notification of a run that is not in the registry raises
\* no error and leaves the registry, the pin set, the index and its key set,
\* the lines in the axes and the palette position unchanged.
C14_CompletionUntracked ==
    [][(Usual /\ last'.op = "completed" /\ last'.run \notin Registry) =>
          /\ err' = "none"
          /\ DOMAIN runs_to_lines' = DOMAIN runs_to_lines
          /\ UNCHANGED <<runs, pinned, runs_to_lines, lines, color_cycle>>]_vars

\* C15: for a tracked run with an index entry some of whose lines somebody
\* else removed from the axes: discard_run of the run raises no error and
\* leaves no line, no index entry and no registry entry of it; an eviction of
\* the run does the same (and raises no error when the run is the only one
\* evicted); a completion notification of the run raises no error and gives
\* its remaining lines palette colours.
C15_ExternalRemovalTolerated ==
    [][\A r \in Registry :
        (r \in DOMAIN runs_to_lines /\ Pre(r).missing) =>
            /\ (last'.op = "discard_run" /\ last'.run = r) => err' = "none"
            /\ (r \in last'.evicted /\ last'.evicted = {r}) => err' = "none"
            /\ ((last'.op = "discard_run" /\ last'.run = r) \/ r \in last'.evicted) =>
                  /\ r \notin RunSet(runs')
                  /\ r \notin DOMAIN runs_to_lines'
                  /\ LinesOf(lines', r) = {}
            /\ (last'.op = "completed" /\ last'.run = r) =>
                  /\ err' = "none"
                  /\ r \in completed_cb =>
                        \A l \in LinesOf(lines', r) : l.color \in Palette]_vars

\* C15 witness: one of the two lines of a tracked run was removed by somebody
\* else, then discard_run of the run returned normally and the other line is
\* gone as well.
C15_Witness ==
    /\ steps = 3
    /\ Len(ys) = 2
    /\ last.op = "discard_run"
    /\ last.pre.tracked
    /\ last.pre.missing
    /\ err = "none"
    /\ last.run \notin Registry
    /\ lines = {}

\* C16: (nobody else removing lines) after every operation that returned
\* normally, every uid with an index entry is the uid of a run in the
\* registry, and the entry is the set of uuids of the lines in the axes that
\* were created for that run.
C16_IndexInvariant ==
    (Usual /\ err = "none") =>
        \A u \in DOMAIN runs_to_lines :
            /\ u \in Registry
            /\ runs_to_lines[u] = {l.uuid : l \in LinesOf(lines, u)}

\* C17: the pin set is always a subset of the uids in the registry, and a run
\* that leaves the registry is not in the pin set afterwards.
C17_PinnedSubsetOfRegistry ==
    /\ [](pinned \subseteq Registry)
    /\ [][\A r \in Registry : r \notin RunSet(runs') => r \notin pinned']_vars

\* C17 witness: discard_run removed a pinned run; another pinned run stays.
C17_Witness ==
    /\ last.op = "discard_run"
    /\ last.pre.tracked
    /\ last.pre.pinned
    /\ last.run \notin Registry
    /\ last.run \notin pinned
    /\ pinned # {}

\* C18: after an assignment to max_runs, len(runs) <= max_runs + len(pinned);
\* the runs removed are the oldest non-pinned ones and the others stay in
\* their order; assigning a larger value removes nothing.
C18_MaxRunsAssignment ==
    [][(Usual /\ last'.op = "max_runs") =>
          /\ Len(runs') <= max_runs' + Cardinality(pinned')
          /\ runs' = SelectSeq(runs, LAMBDA r : r \notin last'.evicted)
          /\ \A e \in last'.evicted :
                /\ e \in Registry \ pinned
                /\ \A k \in 1..Len(runs) :
                      (runs[k] \notin pinned /\ k < IndexOf(runs, e))
                          => runs[k] \in last'.evicted
          /\ max_runs' > max_runs => runs' = runs]_vars

\* The runs added with pinned=False, in the order of the calls.
UnpinnedAdds ==
    LET u == SelectSeq(hist.padds, LAMBDA e : ~e.pin)
    IN  [k \in 1..Len(u) |-> u[k].run]

C20_EagerActivation ==
    [][\A r \in Runs \ Registry :
        (/\ Usual
         /\ last'.op \in {"add_run", "add_run_pinned"}
         /\ last'.run = r
         /\ needs_streams \subseteq streams[r])
            => /\ Cardinality(LinesOf(lines', r) \ LinesOf(lines, r)) = Len(ys)
               /\ new_stream_cb' = new_stream_cb]_vars

\* C21: every operation that runs the eviction procedure (add_run, a max_runs
\* assignment, a new-stream notification) ends without error, and when every
\* run in the registry is pinned the procedure removes nothing.
C21_CullTerminates ==
    [][(Usual /\ last'.op \in {"add_run", "add_run_pinned", "max_runs", "new_stream"}) =>
          /\ err' = "none"
          /\ (Registry \subseteq pinned /\ last'.op \in {"add_run_pinned", "max_runs"})
                => (last'.evicted = {} /\ Registry \subseteq RunSet(runs'))]_vars

\* The part of C21 about the scan: the index of the scan never runs past the
\* end of the registry.
C21_NoIndexError == err # "IndexError"

ImageRuns(m) == [k \in 1..Len(m.images) |-> m.images[k].run]

\* C23: the axes never hold more than one image nor an image of a run other
\* than the assigned one; after an assignment to run that returned normally
\* they hold exactly one image, of the run assigned, when that run is not
\* None, and no image when it is None.
C23_OneImageOfTheRun ==
    im.state = "constructed" =>
        /\ Len(im.images) <= 1
        /\ \A k \in 1..Len(im.images) : im.images[k].run = im.run /\ im.run # 0
        /\ (im.last.op = "set_run" /\ im.err = "none") =>
              ImageRuns(im) = IF im.run = 0 THEN <<>> ELSE <<im.run>>

\* C23 witness: a second run was assigned after a first one and the axes
\* hold the one image of the second.
C23_Witness ==
    /\ im.state = "constructed"
    /\ im.last.op = "set_run"
    /\ im.err = "none"
    /\ im.run # 0
    /\ im.title = im.run
    /\ ImageRuns(im) = <<im.run>>
    /\ im.x_limits # None
    /\ im.x_limits[2] # 2 * ImShape(im.run).cols - 1
    /\ ~im.by_caller.x

\* C25: for an Image whose limits the caller has not set, after an assignment
\* of a run (not None) that returned normally the x limits are
\* (-0.5, ncols - 0.5) and the y limits (-0.5, nrows - 0.5) of that run.
C25_ImageDefaultLimits ==
    (/\ im.state = "constructed"
     /\ im.class = "Image"
     /\ im.last.op = "set_run"
     /\ im.err = "none"
     /\ im.run # 0) =>
        /\ ~im.by_caller.x => im.x_limits = <<-1, 2 * ImShape(im.run).cols - 1>>
        /\ ~im.by_caller.y => im.y_limits = <<-1, 2 * ImShape(im.run).rows - 1>>

\* C28: for a RasteredImage with limits set, after an assignment of "left" or
\* "right" to x_positive reading x_positive returns the value assigned, and
\* likewise for y_positive with "up" and "down".
C28_OrientationSetThenGet ==
    (im.state = "constructed" /\ im.class = "RasteredImage" /\ im.err = "none") =>
        /\ im.last.op = "set_x_positive" => get_x_positive(im).got = im.last.arg
        /\ im.last.op = "set_y_positive" => get_y_positive(im).got = im.last.arg

\* C29: an assignment to x_positive of a value outside {"left", "right"}, or
\* to y_positive of a value outside {"up", "down"}, raises ValueError and
\* leaves the limits and the stored orientations as they were.
C29_InvalidOrientationRejected ==
    [][(\/ im'.last.op = "set_x_positive" /\ im'.last.arg \notin XValues
        \/ im'.last.op = "set_y_positive" /\ im'.last.arg \notin YValues) =>
          /\ im'.err = "ValueError"
          /\ im'.x_limits = im.x_limits
          /\ im'.y_limits = im.y_limits
          /\ im'.x_positive = im.x_positive
          /\ im'.y_positive = im.y_positive
          /\ im'.images = im.images]_vars

\* C29 witness: the assignment of an invalid value to x_positive has raised
\* ValueError on a controller that shows a run, with limits set and a valid
\* orientation stored.
C29_Witness ==
    /\ im.state = "constructed"
    /\ im.last.op = "set_x_positive"
    /\ im.last.arg = Sideways
    /\ im.err = "ValueError"
    /\ im.x_limits # None
    /\ im.x_positive \in XValues
    /\ Len(im.images) = 1

\* C30: no RasteredImage is constructed with an x_positive outside {"left",
\* "right"} or a y_positive outside {"up", "down"}, and none ever holds one.
C30_NoInvalidOrientationHeld ==
    (im.state = "constructed" /\ im.class = "RasteredImage") =>
        (im.x_positive \in XValues /\ im.y_positive \in YValues)

\* The offset, in the row-major entries of an array of shape s, of the 2D
\* block found by taking s[k] div 2 along each axis k but the last two.
RECURSIVE MiddleOffset(_)
MiddleOffset(s) ==
    IF Len(s) <= 2 THEN 0
    ELSE (s[1] \div 2) * Product(Tail(s)) + MiddleOffset(Tail(s))

ExpectedCell(cfg, n, r, c) ==
    LET k == IF cfg.snaking[2] /\ r % 2 = 1 THEN cfg.cols - 1 - c ELSE c
        i == r * cfg.cols + k
    IN  IF i < n THEN i ELSE NaN

\* C26: after a rendering of n <= rows*cols data, datum i is in row i div
\* cols at column i mod cols, mirrored when the column axis snakes and the
\* row is odd; shape (2, 3) with the data 0..5 gives [[0,1,2],[5,4,3]] with
\* snaking (False, True) and [[0,1,2],[3,4,5]] with (False, False).
C26_RasterPlacement ==
    (ras.rendered /\ ras.err = "none") =>
        /\ \A r \in 0..(ras.cfg.rows - 1), c \in 0..(ras.cfg.cols - 1) :
              ras.grid[r + 1][c + 1] = ExpectedCell(ras.cfg, ras.n, r, c)
        /\ (ras.cfg.rows = 2 /\ ras.cfg.cols = 3 /\ ras.n = 6) =>
              /\ ras.cfg.snaking = <<FALSE, TRUE>>
                    => ras.grid = <<(<<0, 1, 2>>), (<<5, 4, 3>>)>>
              /\ ras.cfg.snaking = <<FALSE, FALSE>>
                    => ras.grid = <<(<<0, 1, 2>>), (<<3, 4, 5>>)>>

\* C26 witness: shape (2, 3), snaking (False, True), all six data rendered.
C26_Witness ==
    /\ ras.rendered
    /\ ras.err = "none"
    /\ ras.cfg.rows = 2 /\ ras.cfg.cols = 3
    /\ ras.cfg.snaking = <<FALSE, TRUE>>
    /\ ras.n = 6
    /\ ras.grid[2] = <<5, 4, 3>>

Cells(cfg) == (1..cfg.rows) \X (1..cfg.cols)

Filled(g, cfg) == {p \in Cells(cfg) : g[p[1]][p[2]] # NaN}

\* C27: a rendering of n <= rows*cols data leaves exactly n cells with data
\* and the others NaN; a later rendering, of the same data extended, leaves
\* every cell that had data with the same value.
C27_PartialRaster ==
    /\ []((ras.rendered /\ ras.err = "none") =>
             Cardinality(Filled(ras.grid, ras.cfg)) = ras.n)
    /\ [][\A p \in Filled(ras.grid, ras.cfg) :
             ras'.grid[p[1]][p[2]] = ras.grid[p[1]][p[2]]]_vars

\* C27 witness: a grid with some cells filled and some not was rendered
\* again after more data had come.
C27_Witness ==
    /\ ras.rendered
    /\ ras.err = "none"
    /\ ras.n >= 3
    /\ ras.n < ras.cfg.rows * ras.cfg.cols
    /\ ras.n = Len(ras.data)
    /\ ras.cfg.snaking[2]
    /\ ras.cfg.rows >= 2

\* The default limits of an axis of n pixels, in half units.
DefaultLimits(n, reversed) ==
    IF reversed THEN <<2 * n - 1, -1>> ELSE <<-1, 2 * n - 1>>

\* C31: on a RasteredImage whose limits are still unset and whose
\* orientation is the one the constructor was given ("right"/"left",
\* "up"/"down"), an assignment of a run (not None) that returns normally sets
\* the x limits to (-0.5, cols-0.5) for "right" and (cols-0.5, -0.5) for
\* "left", the y limits to (-0.5, rows-0.5) for "up" and (rows-0.5, -0.5) for
\* "down", and reading x_positive / y_positive then returns that orientation.
C31_DirectionAwareLimits ==
    [][(/\ im.state = "constructed"
        /\ im.class = "RasteredImage"
        /\ im'.last.op = "set_run"
        /\ im'.run # 0
        /\ im'.err = "none") =>
          /\ (/\ im.x_limits = None
              /\ im.x_positive = im.args.x_positive
              /\ im.args.x_positive \in XValues) =>
                 /\ im'.x_limits
                      = DefaultLimits(ImShape(im'.run).cols, im.args.x_positive = "left")
                 /\ get_x_positive(im').err = "none"
                 /\ get_x_positive(im').got = im.args.x_positive
          /\ (/\ im.y_limits = None
              /\ im.y_positive = im.args.y_positive
              /\ im.args.y_positive \in YValues) =>
                 /\ im'.y_limits
                      = DefaultLimits(ImShape(im'.run).rows, im.args.y_positive = "down")
                 /\ get_y_positive(im').err = "none"
                 /\ get_y_positive(im').got = im.args.y_positive]_vars

\* C31 witness: a RasteredImage constructed with "left" and "down" shows its
\* first run with both limits decreasing, none of them set by the caller.
C31_Witness ==
    /\ im.state = "constructed"
    /\ im.class = "RasteredImage"
    /\ im.args.x_positive = "left"
    /\ im.args.y_positive = "down"
    /\ im.steps = 2
    /\ im.last.op = "set_run"
    /\ im.err = "none"
    /\ im.run # 0
    /\ im.x_limits = <<2 * ImShape(im.run).cols - 1, -1>>
    /\ im.y_limits = <<2 * ImShape(im.run).rows - 1, -1>>

\* The sum of the entries at offset k of the 2D blocks b = 0..n-1 of size
\* `size` in the row-major entries d.
RECURSIVE BlockSum(_, _, _, _)
BlockSum(d, size, n, k) ==
    IF n = 0 THEN 0 ELSE d[(n - 1) * size + k] + BlockSum(d, size, n - 1, k)

C34_DrawPerElement ==
    [][(/\ last'.op = "completed"
        /\ last'.run \in Registry
        /\ last'.run \in completed_cb) =>
          LET r == last'.run
              before == IndexedLines(runs_to_lines, lines, r)
              after == IndexedLines(runs_to_lines', lines', r)
              n == Cardinality(before)
          IN  /\ {l.uuid : l \in after} = {l.uuid : l \in before}
              /\ {l.color : l \in after}
                    = {ColorName((color_cycle + k) % PaletteSize) : k \in 0..(n - 1)}
              /\ Cardinality({l.color : l \in after}) = n
              /\ color_cycle' = (color_cycle + n) % PaletteSize
              /\ lines' \ after = lines \ before]_vars

\* C34 witness: the second completion of the history recoloured the two
\* lines of its run with C2 and C3, the first having drawn C0 and C1.
C34_Witness ==
    /\ last.op = "completed"
    /\ last.run \in Registry
    /\ err = "none"
    /\ {l.color : l \in IndexedLines(runs_to_lines, lines, last.run)} = {"C2", "C3"}
    /\ Cardinality(IndexedLines(runs_to_lines, lines, last.run)) = 2
    /\ color_cycle = 4

\* The lines that a step gave a palette colour: created with one, or
\* recoloured.
Drawn == {l \in lines' : l \notin lines /\ l.color # Black}

C36_NoOrphanLines ==
    Usual => \A l \in lines : l.run \in Registry

\* C37: a rendering of all rows*cols data leaves every datum in the grid
\* exactly once (no cell NaN, no two cells the same datum), and in every
\* rendering of n <= rows*cols data each datum 0..n-1 is in exactly one cell.
C37_RasterInjective ==
    (ras.rendered /\ ras.err = "none") =>
        /\ \A i \in 0..(ras.n - 1) :
              Cardinality({p \in Cells(ras.cfg) : ras.grid[p[1]][p[2]] = i}) = 1
        /\ ras.n = ras.cfg.rows * ras.cfg.cols =>
              Filled(ras.grid, ras.cfg) = Cells(ras.cfg)

\* C37 witness: a full raster of more than one row, with snaking columns,
\* rendered with every cell filled.
C37_Witness ==
    /\ ras.rendered
    /\ ras.err = "none"
    /\ ras.cfg.rows >= 2 /\ ras.cfg.cols >= 2
    /\ ras.cfg.snaking[2]
    /\ ras.n = ras.cfg.rows * ras.cfg.cols
    /\ Filled(ras.grid, ras.cfg) = Cells(ras.cfg)
    /\ ras.grid[2][1] = 2 * ras.cfg.cols - 1

\* C38: every image in the axes of a RasteredImage has the style entries
\* cmap, clim and extent of the controller, after every assignment to cmap,
\* clim, extent and run.
C38_StyleInSync ==
    (im.state = "constructed" /\ im.class = "RasteredImage") =>
        \A k \in 1..Len(im.images) :
            /\ im.images[k].style.cmap = im.cmap
            /\ im.images[k].style.clim = im.clim
            /\ im.images[k].style.extent = im.extent

\* C38 witness: cmap was assigned while a run is shown, after clim had been
\* assigned before that run was, and the image has both.
C38_Witness ==
    /\ im.state = "constructed"
    /\ im.class = "RasteredImage"
    /\ im.last.op = "set_cmap"
    /\ im.cmap = "gray"
    /\ im.clim = "0_to_1"
    /\ Len(im.images) = 1
    /\ im.images[1].style = [cmap |-> "gray", clim |-> "0_to_1", extent |-> "None"]

\* C39: on a RasteredImage just constructed with a valid orientation (no
\* run assigned, limits unset), reading x_positive / y_positive returns the
\* orientation given to the constructor and assigning a valid value raises
\* nothing.
C39_OrientationBeforeRun ==
    (/\ im.state = "constructed"
     /\ im.class = "RasteredImage"
     /\ im.args.x_positive \in XValues
     /\ im.args.y_positive \in YValues
     /\ im.steps = 2) =>
        /\ im.last.op = "get_x_positive" =>
              (im.err = "none" /\ im.got = im.args.x_positive)
        /\ im.last.op = "get_y_positive" =>
              (im.err = "none" /\ im.got = im.args.y_positive)
        /\ (im.last.op = "set_x_positive" /\ im.last.arg \in XValues) => im.err = "none"
        /\ (im.last.op = "set_y_positive" /\ im.last.arg \in YValues) => im.err = "none"

\* C40: at most one status-polling worker runs at a time; the Connect
\* button is enabled only when none runs; and when a worker finishes after a
\* Disconnect click that no Connect click followed, no worker is started, the
\* connection status is cleared and the Connect button is enabled.
C40_OnePollingWorker ==
    qt.class = "QtReManagerConnection" =>
        /\ Cardinality(Running(qt)) <= 1
        /\ qt.connect_enabled => Running(qt) = {}
        /\ (qt.last = "finished" /\ ~qt.updates_activated) =>
              /\ Running(qt) = {}
              /\ qt.status = "None"
              /\ qt.label = "-----"
              /\ qt.connect_enabled

\* C40 witness: after a Disconnect click the third worker or a later one
\* has finished and none was started after it.
C40_Witness ==
    /\ qt.class = "QtReManagerConnection"
    /\ qt.last = "finished"
    /\ ~qt.updates_activated
    /\ qt.started >= 3
    /\ \E w \in Workers : qt.phase[w] = "done" /\ w + 1 \in Workers
                             /\ qt.phase[w + 1] = "none" /\ w >= 3
    /\ qt.connect_enabled
    /\ ~qt.disconnect_enabled

\* The palette position of controller c, and the colours of the lines that
\* c has indexed and that are in its axes.
PositionOf(p, c) == p.cycle[p.ctl[c].cycle]

ColoursOf(p, c) ==
    {<<l.uuid, l.run, l.color>> :
        l \in {k \in p.axes[p.ctl[c].axes] :
                 \E u \in DOMAIN p.ctl[c].runs_to_lines :
                     k.uuid \in p.ctl[c].runs_to_lines[u]}}

\* C32: an operation on one of two controllers (an add_run or discard_run
\* of it, or the completion of a run only it has a handler connected for)
\* changes neither the palette position of the other nor the colour of any
\* line of the other; and every draw a controller makes is from its own
\* position: a line it creates for a complete run, or recolours, gets the
\* colour at the position the controller had before the step.
C32_PalettePerController ==
    [][\A c \in Controllers : \A o \in Controllers \ {c} :
          /\ (\/ pair'.last.who = c
              \/ /\ pair'.last.op = "completed"
                 /\ pair'.last.run \notin pair.ctl[o].completed_cb) =>
                /\ PositionOf(pair', o) = PositionOf(pair, o)
                /\ ColoursOf(pair', o) = ColoursOf(pair, o)
          /\ (ColoursOf(pair', c) \ ColoursOf(pair, c) # {}
                /\ \A x \in ColoursOf(pair', c) \ ColoursOf(pair, c) : x[3] # Black) =>
                \E x \in ColoursOf(pair', c) \ ColoursOf(pair, c) :
                    x[3] = ColorName(PositionOf(pair, c))]_vars

\* C32 witness: controller 2 has put lines of a complete run in the axes it
\* shares with controller 1, drawing from C0 on, after controller 1 had
\* drawn C0 for its own lines of that run; the positions differ.
C32_Witness ==
    /\ pair.class = "pair"
    /\ pair.ctl[1].axes = pair.ctl[2].axes
    /\ pair.last.op = "add_run"
    /\ pair.last.who = 2
    /\ pair.err = "none"
    /\ pair.completed[pair.last.run]
    /\ Len(ys) = 1
    /\ PositionOf(pair, 1) = 1
    /\ PositionOf(pair, 2) = 1
    /\ \E x \in ColoursOf(pair, 1) : x[2] = pair.last.run /\ x[3] = "C0"
    /\ \E x \in ColoursOf(pair, 2) : x[2] = pair.last.run /\ x[3] = "C0"

====
